---- MODULE Spec2Model ----
(***************************************************************************)
(* Verification model of the spinal-cord segmentation post-processing      *)
(* tools: the two Label Splitters (process_seg.py, process_spineps_seg.py),*)
(* the Label Range Filter (filter_disc_labels.py), the Vertebral Relabeler *)
(* (relabel_vertebrae.py), the CSV Aggregator (parse_results.py) and the   *)
(* QC Figure Generator (generate_qc.py).  The tools share no state; each   *)
(* has its own specification over its own variables (the other tools'      *)
(* variables are held at their idle values).                               *)
(*                                                                         *)
(* Voxel values of an image file are floating point on disk (get_fdata).   *)
(* They are modelled as integers counting halves: h stands for h/2, so     *)
(* 3 is 1.5 and 4 is 2.0.  Inputs stay inside the int16 range.             *)
(***************************************************************************)
EXTENDS Integers, Sequences, FiniteSets, TLC

VARIABLES
    \* ---- Label Splitters
    variant,        \* which script runs: "sct" (codes 1/2) or "spineps" (60/61)
    input_file,     \* the file at input_file: a volume in halves, or Unreadable
    cord_out,       \* argument cord_out: a filename or None
    canal_out,      \* argument canal_out
    combined_out,   \* argument combined_out
    data_int,       \* the local data_int (None before it is assigned)
    disk,           \* the output files: filename -> contents
    pc,             \* position of the process
    exit_status,    \* Running, 0 or 1
    img_header,     \* the header of the file at input_file
    header,         \* the local header (None before it is assigned)
    affine,         \* the local affine (None before it is assigned)
    disk_header,    \* the headers of the output files: filename -> header
    \* ---- Label Range Filter
    f_input,        \* the input file's voxels, in halves
    f_max_label,    \* argument max_label
    f_out,          \* the file written by each of two successive runs
    f_header,       \* the input file's header
    f_out_header,   \* the header written by each run
    f_pc,
    \* ---- Vertebral Relabeler
    r_input,        \* the input file's voxels, in halves
    r_out,          \* the written file (None before the run)
    r_header,       \* the input file's header
    r_out_header,   \* the written file's header (None before the run)
    r_pc,
    \* ---- CSV Aggregator
    a_method_dirs,  \* main: method_dirs, the method-* directories found
    a_pair,         \* main: the (method, measure_type) pair being processed
    a_written,      \* the output files main has written, by pair
    a_files,        \* parse_method_directory: sorted(os.listdir(method_dir))
    a_i,            \* parse_method_directory: position of the for loop
    a_rows,         \* parse_method_directory: rows
    a_df,           \* the DataFrame the current call returned (empty before)
    a_warned,       \* warnings printed by the current call
    a_read,         \* history: what the current call read from each accepted file
    a_pc,
    \* ---- QC Figure Generator
    q_native,       \* what is at native_path
    q_vert,         \* what is at vertfile_path
    q_shape,        \* native_data.shape[2] of the image at native_path
    q_vert_data,    \* the volume of the file at vertfile_path
    q_ai,           \* the local ai (None before it is assigned)
    q_axial,        \* the local axial_slices: (label, z_idx) per column
    q_i,            \* position of the loop over the method names
    q_active,       \* active_methods
    q_given,        \* history: the methods found in method_files
    q_supplied,     \* history: methods given a loadable cord or canal mask
    q_unloadable,   \* history: a given mask path is a file that cannot be loaded
    q_out,          \* the file at output_path
    q_dir,          \* whether the output directory was created
    q_log,          \* messages printed
    q_pc

splitVars   == <<variant, input_file, cord_out, canal_out, combined_out,
                 data_int, disk, pc, exit_status,
                 img_header, header, affine, disk_header>>
filterVars  == <<f_input, f_max_label, f_out, f_pc, f_header, f_out_header>>
relabelVars == <<r_input, r_out, r_pc, r_header, r_out_header>>
aggVars     == <<a_method_dirs, a_pair, a_written, a_files, a_i, a_rows, a_df,
                 a_warned, a_read, a_pc>>
qcVars      == <<q_native, q_vert, q_i, q_active, q_given, q_supplied, q_unloadable,
                 q_out, q_dir, q_log, q_pc, q_shape, q_vert_data, q_ai, q_axial>>
vars        == <<splitVars, filterVars, relabelVars, aggVars, qcVars>>

\* Values standing for "no array" and "no file"; arrays are functions, so these
\* are functions too (tuples), distinct from every array over Vox.
None       == <<>>
Unreadable == <<"Unreadable">>
Absent     == <<"Absent">>
Partial    == <<"Partial">>
Running    == -1

(***************************************************************************)
(* Bounds of the model.                                                    *)
(***************************************************************************)
NZ == 2                              \* axial slices of a volume
InPlane == {<<0, 0>>, <<1, 0>>}      \* in-plane positions (x, y) of a slice
ZS  == 0 .. (NZ - 1)
Vox == InPlane \X ZS                 \* voxel <<<<x, y>>, z>>

(***************************************************************************)
(* Image headers.  A header holds the spatial transform (the s-form the    *)
(* image's affine is read from), the voxel spacing, the on-disk data type  *)
(* and the free-text description, which stands for every other field.      *)
(***************************************************************************)
\* the headers an input file may carry: an isotropic uint8 image and a
\* float64 image with 5 mm slices, flipped and shifted
IsoHeader ==
    [affine |-> <<1, 1, 1, 0>>, zooms |-> <<1, 1, 1>>, dtype |-> "uint8",
     descrip |-> "sct"]
ThickHeader ==
    [affine |-> <<-1, 1, 5, -40>>, zooms |-> <<1, 1, 5>>, dtype |-> "float64",
     descrip |-> "nnunet"]
Headers == {IsoHeader, ThickHeader}

\* header.set_data_dtype(dtype)
set_data_dtype(hdr, dtype) == [hdr EXCEPT !.dtype = dtype]

\* mutant: the image is built with no header, so it gets a fresh one
Nifti1ImageFreshHeader(aff, hdr) ==
    [affine |-> aff, zooms |-> <<1, 1, 1>>, dtype |-> "int16", descrip |-> ""]

\* nib.Nifti1Image(data, affine, header): the header of the new image is a
\* copy of the given header carrying the given affine
Nifti1Image(aff, hdr) == [hdr EXCEPT !.affine = aff]

(***************************************************************************)
(* Numeric conversions.                                                    *)
(***************************************************************************)
\* np.round on the value h/2: nearest integer, ties to the even neighbour.
Round(h) ==
    IF h % 2 = 0 THEN h \div 2
    ELSE LET lo == (h - 1) \div 2
         IN  IF lo % 2 = 0 THEN lo ELSE lo + 1

\* ndarray.astype(int16 / int32) of a float h/2: truncation toward zero.
Trunc(h) == IF h >= 0 THEN h \div 2 ELSE -((-h) \div 2)

\* .astype(np.int16) of an integer-valued float: two's complement, 16 bit.
AsInt16(v) == ((v + 32768) % 65536) - 32768

(***************************************************************************)
(* Label Splitters: process_segmentation / process_spineps_segmentation.   *)
(***************************************************************************)
CordCode(var)  == IF var = "sct" THEN 1 ELSE 60
CanalCode(var) == IF var = "sct" THEN 2 ELSE 61

\* np.unique(data_int)
Unique(d) == {d[v] : v \in DOMAIN d}

\* np.any(data_int == code, axis=(0, 1)): the slices holding the code
SlicesWith(d, code) == {z \in ZS : \E p \in InPlane : d[<<p, z>>] = code}

\* mutant: the union of the two Z-ranges in place of their intersection
ValidZSlicesUnion(d, var) ==
    SlicesWith(d, CordCode(var)) \cup SlicesWith(d, CanalCode(var))

\* slices_with_cord & slices_with_canal
ValidZSlices(d, var) ==
    SlicesWith(d, CordCode(var)) \cap SlicesWith(d, CanalCode(var))

\* the guard of the Z-range intersection step
BothPresent(d, var) == CordCode(var) \in Unique(d) /\ CanalCode(var) \in Unique(d)

\* mutant: the intersection runs whether or not both labels exist
IntersectUnguarded(d, var) ==
    [v \in Vox |-> IF v[2] \in ValidZSlices(d, var) THEN d[v] ELSE 0]

\* data_int[:, :, ~valid_z_slices] = 0, only if both labels exist
Intersect(d, var) ==
    IF BothPresent(d, var)
    THEN [v \in Vox |-> IF v[2] \in ValidZSlices(d, var) THEN d[v] ELSE 0]
    ELSE d

\* mask = (data_int == code), then save_mask's (mask_data > 0).astype(int16)
EqMask(d, code) == [v \in Vox |-> IF d[v] = code THEN 1 ELSE 0]
CordMask(d, var)  == EqMask(d, CordCode(var))
CanalMask(d, var) == EqMask(d, CanalCode(var))

\* mutant: the combined mask selects the cord code alone
CombinedCodesCordOnly(var) == {CordCode(var)}

\* mask = np.isin(data_int, [cord, canal]), then binarized
CombinedCodes(var) == {CordCode(var), CanalCode(var)}
CombinedMask(d, var) ==
    [v \in Vox |-> IF d[v] \in CombinedCodes(var) THEN 1 ELSE 0]

\* Voxel values (in halves) the splitter inputs are drawn from.
\*   sct:     0, 1.0 (cord), 1.5 (rounds to 2, canal), 3.5 (rounds to 4, foreign)
\*   spineps: 0, 60.5 (rounds to 60, cord), 61.0 (canal), 61.5 (rounds to 62, foreign)
SplitValues(var) ==
    IF var = "sct" THEN {0, 2, 3, 7} ELSE {0, 121, 122, 123}

NoName       == "None"             \* a filename argument left out
CordName     == "cord.nii.gz"
CanalName    == "canal.nii.gz"
CombinedName == "combined.nii.gz"
OutNames     == {CordName, CanalName, CombinedName}

Variants == {"sct", "spineps"}

\* the state at the entry of the function, the input file holding voxel
\* values of values[variant] and one of the given headers
SplitStart(values, headers) ==
    /\ variant \in Variants
    /\ input_file \in [Vox -> values[variant]] \cup {Unreadable}
    /\ cord_out \in {NoName, CordName}
    /\ canal_out \in {NoName, CanalName}
    /\ combined_out \in {NoName, CombinedName}
    /\ data_int = None
    /\ disk = [n \in OutNames |-> Absent]
    /\ pc = "load"
    /\ exit_status = Running
    /\ img_header \in IF input_file = Unreadable THEN {None} ELSE headers
    /\ header = None
    /\ affine = None
    /\ disk_header = [n \in OutNames |-> Absent]

SplitInit == SplitStart([var \in Variants |-> SplitValues(var)], {IsoHeader})

SplitIdle ==
    /\ variant = "sct"
    /\ input_file = Unreadable
    /\ cord_out = NoName
    /\ canal_out = NoName
    /\ combined_out = NoName
    /\ data_int = None
    /\ disk = [n \in OutNames |-> Absent]
    /\ pc = "idle"
    /\ exit_status = Running
    /\ img_header = None
    /\ header = None
    /\ affine = None
    /\ disk_header = [n \in OutNames |-> Absent]

\* mutant: the handler prints the error and falls through (no sys.exit(1))
RaiseNoExit ==
    /\ pc' = "exit"
    /\ exit_status' = 0

\* except Exception: print, traceback, sys.exit(1)
Raise ==
    /\ pc' = "exit"
    /\ exit_status' = 1

\* nib.load, get_fdata, header = img.header.copy(), affine = img.affine,
\* np.round(data).astype(np.int16), np.unique
Load ==
    /\ pc = "load"
    /\ IF input_file = Unreadable
       THEN /\ Raise
            /\ UNCHANGED <<data_int, header, affine>>
       ELSE /\ data_int' = [v \in Vox |-> AsInt16(Round(input_file[v]))]
            /\ header' = img_header
            /\ affine' = img_header.affine
            /\ pc' = "intersect"
            /\ UNCHANGED exit_status
    /\ UNCHANGED <<variant, input_file, cord_out, canal_out, combined_out, disk,
                   img_header, disk_header>>
    /\ UNCHANGED <<filterVars, relabelVars, aggVars, qcVars>>

\* the Z-range intersection block; an exception inside it is caught below
ZRange ==
    /\ pc = "intersect"
    /\ \E fault \in BOOLEAN :
         IF fault
         THEN /\ Raise
              /\ UNCHANGED data_int
         ELSE /\ data_int' = Intersect(data_int, variant)
              /\ pc' = "cord"
              /\ UNCHANGED exit_status
    /\ UNCHANGED <<variant, input_file, cord_out, canal_out, combined_out, disk,
                   img_header, header, affine, disk_header>>
    /\ UNCHANGED <<filterVars, relabelVars, aggVars, qcVars>>

\* save_mask(mask, name, desc) when name is given: the shared header gets the
\* int16 data type, the image is built from the mask, the affine and the
\* header, and nib.save either writes the whole file or raises, leaving the
\* file as it was or partly written.
SaveMask(name, mask, next) ==
    /\ header' = set_data_dtype(header, "int16")
    /\ \E fault \in BOOLEAN :
        IF fault
        THEN /\ Raise
             /\ \E left \in {disk[name], Partial} :
                    /\ disk' = [disk EXCEPT ![name] = left]
                    /\ disk_header' =
                          [disk_header EXCEPT
                             ![name] = IF left = Partial THEN Partial ELSE @]
        ELSE /\ disk' = [disk EXCEPT ![name] = mask]
             /\ disk_header' = [disk_header EXCEPT ![name] = Nifti1Image(affine, header')]
             /\ pc' = next
             /\ UNCHANGED exit_status

Skip(next) ==
    /\ pc' = next
    /\ UNCHANGED <<disk, exit_status, header, disk_header>>

\* if cord_out: save_mask(data_int == cord, cord_out, ...)
SaveCord ==
    /\ pc = "cord"
    /\ IF cord_out # NoName
       THEN SaveMask(cord_out, CordMask(data_int, variant), "canal")
       ELSE Skip("canal")
    /\ UNCHANGED <<variant, input_file, cord_out, canal_out, combined_out, data_int,
                   img_header, affine>>
    /\ UNCHANGED <<filterVars, relabelVars, aggVars, qcVars>>

\* if canal_out: save_mask(data_int == canal, canal_out, ...)
SaveCanal ==
    /\ pc = "canal"
    /\ IF canal_out # NoName
       THEN SaveMask(canal_out, CanalMask(data_int, variant), "combined")
       ELSE Skip("combined")
    /\ UNCHANGED <<variant, input_file, cord_out, canal_out, combined_out, data_int,
                   img_header, affine>>
    /\ UNCHANGED <<filterVars, relabelVars, aggVars, qcVars>>

\* if combined_out: save_mask(np.isin(data_int, [cord, canal]), combined_out, ...)
SaveCombined ==
    /\ pc = "combined"
    /\ IF combined_out # NoName
       THEN SaveMask(combined_out, CombinedMask(data_int, variant), "return")
       ELSE Skip("return")
    /\ UNCHANGED <<variant, input_file, cord_out, canal_out, combined_out, data_int,
                   img_header, affine>>
    /\ UNCHANGED <<filterVars, relabelVars, aggVars, qcVars>>

\* the function returns and the script ends: exit status 0
Return ==
    /\ pc = "return"
    /\ pc' = "exit"
    /\ exit_status' = 0
    /\ UNCHANGED <<variant, input_file, cord_out, canal_out, combined_out,
                   data_int, disk, img_header, header, affine, disk_header>>
    /\ UNCHANGED <<filterVars, relabelVars, aggVars, qcVars>>

SplitNext ==
    \/ Load
    \/ ZRange
    \/ SaveCord
    \/ SaveCanal
    \/ SaveCombined
    \/ Return

(***************************************************************************)
(* Label Range Filter: filter_disc_labels.                                 *)
(***************************************************************************)
MaxRuns == 2                         \* successive runs, each on the last output

\* get_fdata() of a written integer file: the float v, i.e. 2v halves
AsFloat(d) == [v \in DOMAIN d |-> 2 * d[v]]

\* mutant: range(1, max_label) and no 60
ValidShort(max_label) == 1 .. (max_label - 1)

\* valid = set(range(1, max_label + 1)) | {60}
Valid(max_label) == (1 .. max_label) \cup {60}

\* removed = set(np.unique(data)) - valid - {0}
Removed(d, max_label) == (Unique(d) \ Valid(max_label)) \ {0}

\* mutant: the loop stops after the first removed label
ZeroFirstLabel(d, labels) ==
    IF labels = {} THEN d
    ELSE LET label == CHOOSE l \in labels : TRUE
         IN  [v \in DOMAIN d |-> IF d[v] = label THEN 0 ELSE d[v]]

\* for label in removed: data[data == label] = 0
RECURSIVE ZeroLabels(_, _)
ZeroLabels(d, labels) ==
    IF labels = {} THEN d
    ELSE LET label == CHOOSE l \in labels : TRUE
         IN  ZeroLabels([v \in DOMAIN d |-> IF d[v] = label THEN 0 ELSE d[v]],
                        labels \ {label})

\* the data filter_disc_labels saves for the file contents img (in halves)
FilterData(img, max_label) ==
    LET data == [v \in DOMAIN img |-> AsInt16(Round(img[v]))]
    IN  IF Removed(data, max_label) # {}
        THEN ZeroLabels(data, Removed(data, max_label))
        ELSE data

\* Voxel values in halves: -1, 0, 1.5, 21, 22, 60
FilterValues == {-2, 0, 3, 42, 44, 120}
MaxLabels    == {1, 21, 60}

FilterStart(values, headers) ==
    /\ f_input \in [Vox -> values]
    /\ f_max_label \in MaxLabels
    /\ f_out = <<>>
    /\ f_pc = "run"
    /\ f_header \in headers
    /\ f_out_header = <<>>

FilterInit == FilterStart(FilterValues, {IsoHeader})

FilterIdle ==
    /\ f_input = None
    /\ f_max_label = 0
    /\ f_out = <<>>
    /\ f_pc = "idle"
    /\ f_header = None
    /\ f_out_header = <<>>

\* the file the next run reads: the input, then the previous run's output
FilterSource == IF f_out = <<>> THEN f_input ELSE AsFloat(f_out[Len(f_out)])

\* img.header of the file the next run reads
FilterSourceHeader ==
    IF f_out_header = <<>> THEN f_header ELSE f_out_header[Len(f_out_header)]

\* one run of filter_disc_labels(input_path, output_path, max_label): the
\* output is nib.Nifti1Image(data, img.affine, img.header)
FilterRun ==
    /\ f_pc = "run"
    /\ Len(f_out) < MaxRuns
    /\ f_out' = Append(f_out, FilterData(FilterSource, f_max_label))
    /\ f_out_header' = Append(f_out_header,
                              Nifti1Image(FilterSourceHeader.affine, FilterSourceHeader))
    /\ UNCHANGED <<f_input, f_max_label, f_pc, f_header>>
    /\ UNCHANGED <<splitVars, relabelVars, aggVars, qcVars>>

FilterNext == FilterRun

(***************************************************************************)
(* Vertebral Relabeler: relabel_nifti.                                     *)
(***************************************************************************)
\* label_mapping, in the order the dict lists (and iterates) its entries
label_mapping ==
    << <<11, 1>>, <<12, 2>>, <<13, 3>>, <<14, 4>>, <<15, 5>>, <<16, 6>>,
       <<17, 7>>,
       <<21, 8>>, <<22, 9>>, <<23, 10>>, <<24, 11>>, <<25, 12>>, <<26, 13>>,
       <<27, 14>>, <<28, 15>>, <<29, 16>>, <<30, 17>>, <<31, 18>>, <<32, 19>>,
       <<41, 20>>, <<42, 21>>, <<43, 22>>, <<44, 23>>, <<45, 24>>,
       <<50, 25>> >>

\* mutant: new_data starts as a copy of data
ZerosLikeCopy(data) == data

\* new_data = np.zeros_like(data)
ZerosLike(data) == [v \in DOMAIN data |-> 0]

\* one turn of the loop: mask = (data == old_label); new_data[mask] = new_label
MapEntry(data, new_data, entry) ==
    [v \in DOMAIN data |-> IF data[v] = entry[1] THEN entry[2] ELSE new_data[v]]

\* for old_label, new_label in label_mapping.items(): ...
RECURSIVE RelabelLoop(_, _, _)
RelabelLoop(data, new_data, i) ==
    IF i > Len(label_mapping) THEN new_data
    ELSE RelabelLoop(data, MapEntry(data, new_data, label_mapping[i]), i + 1)

\* the array relabel_nifti saves for the file contents img (in halves)
RelabelData(img) ==
    LET data == [v \in DOMAIN img |-> Trunc(img[v])]
        new_data == RelabelLoop(data, ZerosLike(data), 1)
    IN  [v \in DOMAIN img |-> AsInt16(new_data[v])]

\* Voxel values in halves: 0, 8, 11, 11.5, 24, 50, 51
RelabelValues == {0, 16, 22, 23, 48, 100, 102}

RelabelStart(values, headers) ==
    /\ r_input \in [Vox -> values]
    /\ r_out = None
    /\ r_pc = "start"
    /\ r_header \in headers
    /\ r_out_header = None

RelabelInit == RelabelStart(RelabelValues, {IsoHeader})

RelabelIdle ==
    /\ r_input = None
    /\ r_out = None
    /\ r_pc = "idle"
    /\ r_header = None
    /\ r_out_header = None

\* relabel_nifti(input_path, output_path): the output is
\* nib.Nifti1Image(new_data.astype(np.int16), img.affine, img.header)
Relabel ==
    /\ r_pc = "start"
    /\ r_out' = RelabelData(r_input)
    /\ r_out_header' = Nifti1Image(r_header.affine, r_header)
    /\ r_pc' = "saved"
    /\ UNCHANGED <<r_input, r_header>>
    /\ UNCHANGED <<splitVars, filterVars, aggVars, qcVars>>

RelabelNext == Relabel

(***************************************************************************)
(* CSV Aggregator: parse_results.py.                                       *)
(*                                                                         *)
(* A file is read once, so its contents are chosen when the loop reaches   *)
(* it.  The history variable a_read keeps, for every accepted file of the  *)
(* current call, the levels its rows supply.                               *)
(***************************************************************************)
MaxMethods == 1                      \* method-* directories under --directory
MaxFiles   == 2                      \* files in one method directory
MaxRows    == 2                      \* data rows in one CSV file

\* for measure_type in ("cord", "canal", "ratio")
Measures == <<"cord", "canal", "ratio">>

\* The filenames a method directory may hold, as token sequences, listed in
\* the order of Python's string comparison:
\*   a_cord.csv < b_cord.csv < notes.txt
\*              < sub-01_ses-02_ratio.csv < sub-01_ses-02_x_ratio.csv
\* Two cord files without a sub- or ses- token, two ratio files of the same
\* subject and session, and a file that matches no measure type.
FileNames ==
    << <<"a", "_cord.csv">>,
       <<"b", "_cord.csv">>,
       <<"notes", ".txt">>,
       <<"sub-", "01", "_", "ses-", "02", "_ratio.csv">>,
       <<"sub-", "01", "_", "ses-", "02", "_x", "_ratio.csv">> >>
NameIds == 1 .. Len(FileNames)

\* re.search(r"<key>([A-Za-z0-9]+)", filename): the first token <key> followed
\* by an identifier; "" if there is none
RECURSIVE SearchToken(_, _, _)
SearchToken(tokens, key, i) ==
    IF i >= Len(tokens) THEN ""
    ELSE IF tokens[i] = key THEN tokens[i + 1]
    ELSE SearchToken(tokens, key, i + 1)

\* extract_bids_fields(filename)
extract_bids_fields(f) ==
    [subject_id |-> SearchToken(FileNames[f], "sub-", 1),
     session_id |-> SearchToken(FileNames[f], "ses-", 1)]

\* pattern = f"_{measure_type}.csv"; fname.endswith(pattern)
EndsWith(f, measure_type) ==
    FileNames[f][Len(FileNames[f])] = "_" \o measure_type \o ".csv"

\* sorted(os.listdir(method_dir))
RECURSIVE Sorted(_)
Sorted(S) ==
    IF S = {} THEN <<>>
    ELSE LET m == CHOOSE x \in S : \A y \in S : x <= y
         IN  <<m>> \o Sorted(S \ {m})

\* A cell of a level column: an integer, a missing value (NaN) or a string
\* that is no number.
IntCell(n) == [kind |-> "int", val |-> n]
NaNCell    == [kind |-> "nan", val |-> 0]
StrCell    == [kind |-> "str", val |-> 0]
LevelCells == {NaNCell, StrCell, IntCell(0), IntCell(2), IntCell(10)}

\* The contents of a CSV file.  levels[r] is row r's cell of the level column
\* (of VertLevel when the file has both spellings; vertLevel then holds 10 in
\* every row).  The value column, when present, holds the row number r.
\* What the loop never looks at is left out: the table of a file that cannot
\* be read or has no value column, the level cells of a file with no level
\* column.
Tables(cols, cells) ==
    [readable : {TRUE}, has_info : {TRUE}, cols : cols,
     levels : UNION {[1 .. n -> cells] : n \in 0 .. MaxRows}]
FileContents ==
    {[readable |-> FALSE, has_info |-> FALSE, cols |-> {}, levels |-> <<>>],
     [readable |-> TRUE, has_info |-> FALSE, cols |-> {}, levels |-> <<>>]}
    \cup Tables({{}}, {NaNCell})
    \cup Tables((SUBSET {"VertLevel", "vertLevel"}) \ {{}}, LevelCells)
AltCell == IntCell(10)
Cell(c, r, col) ==
    IF col = "vertLevel" /\ "VertLevel" \in c.cols THEN AltCell ELSE c.levels[r]
InfoValue(c, r) == r

\* record.get(col, default): the default only if the column does not exist
RecordGet(c, r, col, default) == IF col \in c.cols THEN Cell(c, r, col) ELSE default

\* record.get("VertLevel", record.get("vertLevel", -1))
LevelCell(c, r) ==
    RecordGet(c, r, "VertLevel", RecordGet(c, r, "vertLevel", IntCell(-1)))

\* int(x) raises ValueError on NaN and on a string that is no number
IntRaises(cell) == cell.kind # "int"

\* mutant: a key already in the dict keeps its value
RECURSIVE DictSetKeepFirst(_, _, _)
DictSetKeepFirst(d, key, value) ==
    IF d = <<>> THEN << <<key, value>> >>
    ELSE IF d[1][1] = key THEN d
    ELSE <<d[1]>> \o DictSetKeepFirst(Tail(d), key, value)

\* row[key] = value on a dict kept in insertion order
RECURSIVE DictSet(_, _, _)
DictSet(d, key, value) ==
    IF d = <<>> THEN << <<key, value>> >>
    ELSE IF d[1][1] = key THEN << <<key, value>> >> \o Tail(d)
    ELSE <<d[1]>> \o DictSet(Tail(d), key, value)
DictKeys(d) == {d[k][1] : k \in DOMAIN d}
DictIndex(d, key) == (CHOOSE k \in DOMAIN d : d[k][1] = key)

\* for _, record in df.iterrows(): level = int(...); if level > 0: row[...] = ...
RECURSIVE Pivot(_, _, _)
Pivot(c, levels, r) ==
    IF r > Len(c.levels) THEN levels
    ELSE LET level == LevelCell(c, r).val
         IN  Pivot(c,
                   IF level > 0 THEN DictSet(levels, level, InfoValue(c, r))
                   ELSE levels,
                   r + 1)

\* the loop raises at the first row whose level int() rejects
PivotRaises(c) == \E r \in 1 .. Len(c.levels) : IntRaises(LevelCell(c, r))

\* the empty cell of a DataFrame (NaN, written as an empty field); the value
\* column holds positive numbers
Empty == 0

\* pd.DataFrame(): no rows, no columns
EmptyFrame == [columns |-> <<>>, rows |-> <<>>]

\* mutant: the columns of the first row only
FrameLevelsFirstRow(rows) ==
    IF rows = <<>> THEN <<>>
    ELSE [k \in DOMAIN rows[1].levels |-> rows[1].levels[k][1]]

\* the level keys of the rows, in the order pd.DataFrame(rows) meets them
RECURSIVE FrameLevels(_)
FrameLevels(rows) ==
    IF rows = <<>> THEN <<>>
    ELSE LET before == FrameLevels(SubSeq(rows, 1, Len(rows) - 1))
             last == rows[Len(rows)].levels
             seen == {before[k] : k \in DOMAIN before}
             new == SelectSeq([k \in DOMAIN last |-> last[k][1]],
                              LAMBDA n : n \notin seen)
         IN  before \o new

\* A column name is a sequence of tokens: <<"subject_id">>, or "level"
\* followed by the characters of a decimal number, <<"level", "1", "0">>.
DigitChars == <<"0", "1", "2", "3", "4", "5", "6", "7", "8", "9">>
DigitValue(ch) == (CHOOSE d \in DOMAIN DigitChars : DigitChars[d] = ch) - 1

\* f"{level}" of a positive int: its decimal digits
RECURSIVE FormatInt(_)
FormatInt(n) ==
    IF n < 10 THEN <<DigitChars[n + 1]>>
    ELSE FormatInt(n \div 10) \o <<DigitChars[(n % 10) + 1]>>

\* int(s) of a string of decimal digits
RECURSIVE ParseInt(_)
ParseInt(chars) ==
    IF chars = <<>> THEN 0
    ELSE 10 * ParseInt(SubSeq(chars, 1, Len(chars) - 1))
         + DigitValue(chars[Len(chars)])

\* f"level{level}"
LevelColumn(n) == <<"level">> \o FormatInt(n)

\* int(x.replace("level", ""))
ColumnInt(x) == ParseInt(SelectSeq(x, LAMBDA t : t # "level"))

\* a < b for two strings of digits, as Python compares strings
RECURSIVE StrLess(_, _)
StrLess(a, b) ==
    IF a = <<>> THEN b # <<>>
    ELSE IF b = <<>> THEN FALSE
    ELSE IF a[1] # b[1] THEN DigitValue(a[1]) < DigitValue(b[1])
    ELSE StrLess(Tail(a), Tail(b))

\* mutant: sorted(level_cols) with no key, the order of the names as strings
RECURSIVE SortByName(_)
SortByName(cols) ==
    IF cols = <<>> THEN <<>>
    ELSE LET m == CHOOSE k \in DOMAIN cols :
                      \A j \in DOMAIN cols : ~StrLess(Tail(cols[j]), Tail(cols[k]))
         IN  <<cols[m]>> \o
             SortByName(SelectSeq(cols, LAMBDA n : n # cols[m]))

\* sorted(level_cols, key=lambda x: int(x.replace("level", "")))
RECURSIVE SortByInt(_)
SortByInt(cols) ==
    IF cols = <<>> THEN <<>>
    ELSE LET m == CHOOSE k \in DOMAIN cols :
                      \A j \in DOMAIN cols : ColumnInt(cols[k]) <= ColumnInt(cols[j])
         IN  <<cols[m]>> \o
             SortByInt(SelectSeq(cols, LAMBDA n : n # cols[m]))

\* result = pd.DataFrame(rows); level_cols = sorted(...);
\* cols = ["subject_id", "session_id"] + level_cols; return result[cols]
\* (a row's level cells are kept by level number)
Frame(rows) ==
    LET found == FrameLevels(rows)
        level_cols == SortByInt([k \in DOMAIN found |-> LevelColumn(found[k])])
        names == {found[k] : k \in DOMAIN found}
    IN  [columns |-> << <<"subject_id">>, <<"session_id">> >> \o level_cols,
         rows |-> [k \in DOMAIN rows |->
                    [subject_id |-> rows[k].subject_id,
                     session_id |-> rows[k].session_id,
                     level |-> [n \in names |->
                                  IF n \in DictKeys(rows[k].levels)
                                  THEN rows[k].levels[DictIndex(rows[k].levels, n)][2]
                                  ELSE Empty]]]]

\* df.empty
IsEmptyFrame(df) == df.columns = <<>> \/ df.rows = <<>>

\* history: the positive levels the rows of c supply, as the code reads them
PositiveLevels(c) ==
    {LevelCell(c, r).val : r \in {q \in 1 .. Len(c.levels) : LevelCell(c, q).val > 0}}

\* history: the level each row of c supplies, as the code reads it (0 for a
\* row the loop ignores)
RowLevels(c) ==
    [r \in 1 .. Len(c.levels) |->
        IF LevelCell(c, r).val > 0 THEN LevelCell(c, r).val ELSE 0]

\* the pairs main goes through: for method in method_dirs, for measure_type
Pairs == 1 .. (Len(a_method_dirs) * Len(Measures))
MethodOf(p)  == a_method_dirs[((p - 1) \div Len(Measures)) + 1]
MeasureOf(p) == Measures[((p - 1) % Len(Measures)) + 1]

AggInit ==
    /\ a_method_dirs \in {[k \in 1 .. n |-> k] : n \in 0 .. MaxMethods}
    /\ a_pair = 0
    /\ a_written = {}
    /\ a_files = <<>>
    /\ a_i = 0
    /\ a_rows = <<>>
    /\ a_df = EmptyFrame
    /\ a_warned = {}
    /\ a_read = <<>>
    /\ a_pc = "main"

AggIdle ==
    /\ a_method_dirs = <<>>
    /\ a_pair = 0
    /\ a_written = {}
    /\ a_files = <<>>
    /\ a_i = 0
    /\ a_rows = <<>>
    /\ a_df = EmptyFrame
    /\ a_warned = {}
    /\ a_read = <<>>
    /\ a_pc = "idle"

\* main up to the loop: no method-* directory ends the run
MainStart ==
    /\ a_pc = "main"
    /\ IF a_method_dirs = <<>>
       THEN a_pc' = "done" /\ UNCHANGED a_pair
       ELSE a_pc' = "call" /\ a_pair' = 1
    /\ UNCHANGED <<a_method_dirs, a_written, a_files, a_i, a_rows, a_df,
                   a_warned, a_read>>
    /\ UNCHANGED <<splitVars, filterVars, relabelVars, qcVars>>

\* parse_method_directory up to the loop: a directory that is not there gives
\* a warning and an empty DataFrame
ParseEnter ==
    /\ a_pc = "call"
    /\ a_rows' = <<>>
    /\ a_read' = <<>>
    /\ a_i' = 1
    /\ a_df' = EmptyFrame
    /\ \E isdir \in BOOLEAN :
         IF ~isdir
         THEN /\ a_warned' = {<<"Directory not found">>}
              /\ a_files' = <<>>
              /\ a_pc' = "returned"
         ELSE /\ \E names \in {S \in SUBSET NameIds : Cardinality(S) <= MaxFiles} :
                    a_files' = Sorted(names)
              /\ a_warned' = {}
              /\ a_pc' = "loop"
    /\ UNCHANGED <<a_method_dirs, a_pair, a_written>>
    /\ UNCHANGED <<splitVars, filterVars, relabelVars, qcVars>>

\* one turn of "for fname in sorted(os.listdir(method_dir))"
ParseFile ==
    /\ a_pc = "loop"
    /\ a_i <= Len(a_files)
    /\ LET fname == a_files[a_i]
           ids == extract_bids_fields(fname)
       IN  IF ~EndsWith(fname, MeasureOf(a_pair))
           THEN /\ a_i' = a_i + 1
                /\ UNCHANGED <<a_rows, a_warned, a_read, a_pc>>
           ELSE \E c \in FileContents :
                  IF ~c.readable
                  THEN /\ a_warned' = a_warned \cup {<<"Could not read", fname>>}
                       /\ a_i' = a_i + 1
                       /\ UNCHANGED <<a_rows, a_read, a_pc>>
                  ELSE IF ~c.has_info
                  THEN /\ a_warned' = a_warned \cup {<<"Column not found", fname>>}
                       /\ a_i' = a_i + 1
                       /\ UNCHANGED <<a_rows, a_read, a_pc>>
                  ELSE IF PivotRaises(c)
                  THEN /\ a_pc' = "crashed"
                       /\ UNCHANGED <<a_i, a_rows, a_warned, a_read>>
                  ELSE /\ a_rows' = Append(a_rows,
                                       [subject_id |-> ids.subject_id,
                                        session_id |-> ids.session_id,
                                        levels |-> Pivot(c, <<>>, 1)])
                       /\ a_read' = Append(a_read,
                                       [fname |-> fname, levels |-> PositiveLevels(c),
                                        by_row |-> RowLevels(c)])
                       /\ a_i' = a_i + 1
                       /\ UNCHANGED <<a_warned, a_pc>>
    /\ UNCHANGED <<a_method_dirs, a_pair, a_written, a_files, a_df>>
    /\ UNCHANGED <<splitVars, filterVars, relabelVars, qcVars>>

\* after the loop: "if not rows: return pd.DataFrame()", else the sorted frame
ParseReturn ==
    /\ a_pc = "loop"
    /\ a_i > Len(a_files)
    /\ a_df' = IF a_rows = <<>> THEN EmptyFrame ELSE Frame(a_rows)
    /\ a_pc' = "returned"
    /\ UNCHANGED <<a_method_dirs, a_pair, a_written, a_files, a_i, a_rows,
                   a_warned, a_read>>
    /\ UNCHANGED <<splitVars, filterVars, relabelVars, qcVars>>

\* main: "if df.empty: continue", else df.to_csv(out_file); then the next pair
MainWrite ==
    /\ a_pc = "returned"
    /\ a_written' = IF IsEmptyFrame(a_df) THEN a_written ELSE a_written \cup {a_pair}
    /\ IF a_pair < Len(a_method_dirs) * Len(Measures)
       THEN a_pair' = a_pair + 1 /\ a_pc' = "call"
       ELSE a_pc' = "done" /\ UNCHANGED a_pair
    /\ UNCHANGED <<a_method_dirs, a_files, a_i, a_rows, a_df, a_warned, a_read>>
    /\ UNCHANGED <<splitVars, filterVars, relabelVars, qcVars>>

AggNext ==
    \/ MainStart
    \/ ParseEnter
    \/ ParseFile
    \/ ParseReturn
    \/ MainWrite

(***************************************************************************)
(* QC Figure Generator: generate_qc_figure.                                *)
(*                                                                         *)
(* A path argument is modelled by what is found there: "None" (no path     *)
(* given), "missing" (no such file), "file" (a loadable volume) or         *)
(* "corrupt" (a file nib.load rejects).  The entry of method_files for a   *)
(* method is chosen when the loop reaches the method.                      *)
(***************************************************************************)
Paths == {"None", "missing", "file", "corrupt"}

\* for mname in ["totalspineseg", "spineps", "custom-atlas", "pam50"]
MethodNames == <<"totalspineseg", "spineps", "custom-atlas", "pam50">>

\* method_files[mname], or NotInDict
NotInDict == [cord |-> "absent", canal |-> "absent"]
Entries == [cord : Paths, canal : Paths] \cup {NotInDict}

\* os.path.isfile(path)
IsFile(path) == path \in {"file", "corrupt"}

\* load_nifti(path): "none" for (None, None, None), "data", or "raise"
load_nifti(path) ==
    IF path = "None" \/ ~IsFile(path) THEN "none"
    ELSE IF path = "corrupt" THEN "raise" ELSE "data"

(* ---- the slice selection ---- *)
MaxLabelled == 2                     \* labelled slices of a vertebral volume

\* axial sizes of the volumes: 4 slices (spread 0) and 8 slices (spread 1)
QcShapes == {4, 8}

\* What a labelled slice of a vertebral volume holds at its two in-plane
\* positions: levels 1 and 2, levels 3 and 4, or level 5 beside background.
LabelledSlices ==
    {(<<0, 0>> :> 1 @@ <<1, 0>> :> 2),
     (<<0, 0>> :> 3 @@ <<1, 0>> :> 4),
     (<<0, 0>> :> 5 @@ <<1, 0>> :> 0)}

\* the vertebral volumes: nz slices, background but for one stretch of at most
\* MaxLabelled labelled slices starting at slice lo
VertVolumes ==
    UNION {
      UNION {
        {[nz |-> n,
          vox |-> [v \in InPlane \X (0 .. (n - 1)) |->
                     IF v[2] \in S THEN c[v[2]][v[1]] ELSE 0]] :
           c \in [S -> LabelledSlices]} :
        S \in {lo .. (lo + len - 1) : lo \in 0 .. (n - 1), len \in 0 .. MaxLabelled}
               \cap SUBSET (0 .. (n - 1))} :
      n \in QcShapes}

Min(a, b) == IF a <= b THEN a ELSE b
Max(a, b) == IF a >= b THEN a ELSE b

\* coords = np.argwhere(vertfile_data > 0)
Coords(vol) == {v \in DOMAIN vol.vox : vol.vox[v] > 0}

\* the sum of the axial coordinates of a set of voxels
RECURSIVE SumZ(_)
SumZ(S) ==
    IF S = {} THEN 0
    ELSE LET v == CHOOSE x \in S : TRUE IN v[2] + SumZ(S \ {v})

\* get_mid_slice_indices(data_3d, vertfile_data), its axial component: the
\* centroid of the positive voxels, coords.mean(axis=0).astype(int), or
\* data_3d.shape[2] // 2
get_mid_slice_indices(shape, vertfile_data) ==
    IF vertfile_data # None /\ Coords(vertfile_data) # {}
    THEN SumZ(Coords(vertfile_data)) \div Cardinality(Coords(vertfile_data))
    ELSE shape \div 2

\* np.where(np.any(vertfile_data == lev, axis=(0, 1)))[0]
ZIndices(vol, lev) ==
    Sorted({z \in 0 .. (vol.nz - 1) : \E p \in InPlane : vol.vox[<<p, z>>] = lev})

\* mutant: the first slice of the level in place of the middle one
MidZFirst(z_indices) == z_indices[1]

\* mid_z = z_indices[len(z_indices) // 2]
MidZ(z_indices) == z_indices[(Len(z_indices) \div 2) + 1]

\* get_axial_slices_per_level(vertfile_data, levels)
RECURSIVE LevelSlices(_, _, _)
LevelSlices(vol, levels, i) ==
    IF i > Len(levels) THEN <<>>
    ELSE LET z_indices == ZIndices(vol, levels[i])
         IN  (IF Len(z_indices) > 0
              THEN << <<"Axial C", levels[i], MidZ(z_indices)>> >>
              ELSE <<>>)
             \o LevelSlices(vol, levels, i + 1)
get_axial_slices_per_level(vertfile_data, levels) ==
    IF vertfile_data = None THEN <<>> ELSE LevelSlices(vertfile_data, levels, 1)

\* the fallback: spread = shape[2] // 8, four slices around ai
Fallback(shape, ai) ==
    LET spread == shape \div 8
    IN  << <<"Axial sup", 0, Max(0, ai - 3 * spread)>>,
           <<"Axial mid-sup", 0, Max(0, ai - spread)>>,
           <<"Axial mid-inf", 0, Min(shape - 1, ai + spread)>>,
           <<"Axial inf", 0, Min(shape - 1, ai + 3 * spread)>> >>

\* while len(axial_levels) < 4: axial_levels.append(("Axial", ai))
RECURSIVE Pad(_, _)
Pad(axial_levels, ai) ==
    IF Len(axial_levels) < 4
    THEN Pad(Append(axial_levels, <<"Axial", 0, ai>>), ai)
    ELSE axial_levels

\* for label_str, z_idx in axial_levels[:4]: z_idx = min(z_idx, shape[2] - 1)
AxialSlices(axial_levels, shape) ==
    [k \in 1 .. Min(4, Len(axial_levels)) |->
        <<axial_levels[k][1], axial_levels[k][2],
          Min(axial_levels[k][3], shape - 1)>>]

\* mutant: a method in method_files is active whatever was loaded
IsActiveAlways(cord_data, canal_data) == TRUE

\* if cord_data is not None or canal_data is not None
IsActive(cord_data, canal_data) == cord_data # "none" \/ canal_data # "none"

QcInit ==
    /\ q_native \in Paths
    /\ q_vert \in Paths
    /\ q_shape \in IF q_native = "file" THEN QcShapes ELSE {0}
    /\ q_vert_data \in IF q_native = "file" /\ q_vert = "file"
                        THEN VertVolumes ELSE {None}
    /\ q_ai = None
    /\ q_axial = <<>>
    /\ q_i = 1
    /\ q_active = <<>>
    /\ q_given = {}
    /\ q_supplied = {}
    /\ q_unloadable = FALSE
    /\ q_out = "absent"
    /\ q_dir = FALSE
    /\ q_log = {}
    /\ q_pc = "native"

QcIdle ==
    /\ q_native = "None"
    /\ q_vert = "None"
    /\ q_shape = 0
    /\ q_vert_data = None
    /\ q_ai = None
    /\ q_axial = <<>>
    /\ q_i = 1
    /\ q_active = <<>>
    /\ q_given = {}
    /\ q_supplied = {}
    /\ q_unloadable = FALSE
    /\ q_out = "absent"
    /\ q_dir = FALSE
    /\ q_log = {}
    /\ q_pc = "idle"

\* native_data, _, voxel_zooms = load_nifti(native_path); if None: error, return
LoadNative ==
    /\ q_pc = "native"
    /\ IF load_nifti(q_native) = "raise"
       THEN q_pc' = "raised" /\ UNCHANGED q_log
       ELSE IF load_nifti(q_native) = "none"
       THEN q_pc' = "returned" /\ q_log' = q_log \cup {"ERROR: Cannot load native image"}
       ELSE q_pc' = "vert" /\ UNCHANGED q_log
    /\ UNCHANGED <<q_native, q_vert, q_i, q_active, q_given, q_supplied, q_unloadable,
                   q_out, q_dir>>
    /\ UNCHANGED <<q_shape, q_vert_data, q_ai, q_axial>>
    /\ UNCHANGED <<splitVars, filterVars, relabelVars, aggVars>>

\* vert_data, _, _ = load_nifti(vertfile_path)
LoadVert ==
    /\ q_pc = "vert"
    /\ q_pc' = IF load_nifti(q_vert) = "raise" THEN "raised" ELSE "slices"
    /\ UNCHANGED <<q_native, q_vert, q_i, q_active, q_given, q_supplied, q_unloadable,
                   q_out, q_dir, q_log>>
    /\ UNCHANGED <<q_shape, q_vert_data, q_ai, q_axial>>
    /\ UNCHANGED <<splitVars, filterVars, relabelVars, aggVars>>

\* the aspect ratios (local values, not kept) and the slice selection:
\*   si, ci, ai = get_mid_slice_indices(native_data, vert_data); ai = min(...)
\*   axial_levels = get_axial_slices_per_level(vert_data, levels=(1, 2, 3, 4))
\*   if not axial_levels: fallback;  while len(axial_levels) < 4: pad
\*   axial_slices = the first four, each z_idx = min(z_idx, shape[2] - 1)
SelectSlices ==
    /\ q_pc = "slices"
    /\ LET vert_data == IF load_nifti(q_vert) = "data" THEN q_vert_data ELSE None
           ai == Min(get_mid_slice_indices(q_shape, vert_data), q_shape - 1)
           found == get_axial_slices_per_level(vert_data, <<1, 2, 3, 4>>)
           axial_levels == Pad(IF found = <<>> THEN Fallback(q_shape, ai) ELSE found,
                               ai)
       IN  /\ q_ai' = ai
           /\ q_axial' = AxialSlices(axial_levels, q_shape)
    /\ q_pc' = "methods"
    /\ UNCHANGED <<q_native, q_vert, q_i, q_active, q_given, q_supplied, q_unloadable,
                   q_out, q_dir, q_log, q_shape, q_vert_data>>
    /\ UNCHANGED <<splitVars, filterVars, relabelVars, aggVars>>

\* one turn of the loop "Determine which methods have data"
LoadMethod ==
    /\ q_pc = "methods"
    /\ q_i <= Len(MethodNames)
    /\ \E mf \in Entries :
         LET mname == MethodNames[q_i]
             cord_data == load_nifti(mf.cord)
             canal_data == load_nifti(mf.canal)
             loadable == mf # NotInDict /\ (mf.cord = "file" \/ mf.canal = "file")
             unloadable == mf # NotInDict /\ (mf.cord = "corrupt" \/ mf.canal = "corrupt")
         IN  /\ q_given' = IF mf # NotInDict THEN q_given \cup {mname} ELSE q_given
             /\ q_supplied' = IF loadable THEN q_supplied \cup {mname} ELSE q_supplied
             /\ q_unloadable' = (q_unloadable \/ unloadable)
             /\ IF mf = NotInDict
                THEN /\ q_i' = q_i + 1
                     /\ UNCHANGED <<q_active, q_pc>>
                ELSE IF cord_data = "raise" \/ canal_data = "raise"
                THEN /\ q_pc' = "raised"
                     /\ UNCHANGED <<q_i, q_active>>
                ELSE /\ q_active' = IF IsActive(cord_data, canal_data)
                                    THEN Append(q_active, mname) ELSE q_active
                     /\ q_i' = q_i + 1
                     /\ UNCHANGED q_pc
    /\ UNCHANGED <<q_native, q_vert, q_out, q_dir, q_log>>
    /\ UNCHANGED <<q_shape, q_vert_data, q_ai, q_axial>>
    /\ UNCHANGED <<splitVars, filterVars, relabelVars, aggVars>>

\* if not active_methods: print warning, return
CheckActive ==
    /\ q_pc = "methods"
    /\ q_i > Len(MethodNames)
    /\ IF q_active = <<>>
       THEN /\ q_log' = q_log \cup {"WARNING: No segmentation data found for QC overlay."}
            /\ q_pc' = "returned"
       ELSE /\ q_pc' = "render"
            /\ UNCHANGED q_log
    /\ UNCHANGED <<q_native, q_vert, q_i, q_active, q_given, q_supplied, q_unloadable,
                   q_out, q_dir>>
    /\ UNCHANGED <<q_shape, q_vert_data, q_ai, q_axial>>
    /\ UNCHANGED <<splitVars, filterVars, relabelVars, aggVars>>

\* drawing, os.makedirs and fig.savefig: drawing may raise before the
\* directory is made, savefig may raise after it
Render ==
    /\ q_pc = "render"
    /\ \E outcome \in {"draw raises", "savefig raises", "saved"} :
         /\ q_dir' = (outcome # "draw raises")
         /\ q_out' = IF outcome = "saved" THEN "written" ELSE q_out
         /\ q_pc' = IF outcome = "saved" THEN "returned" ELSE "raised"
         /\ q_log' = IF outcome = "saved" THEN q_log \cup {"QC figure saved"} ELSE q_log
    /\ UNCHANGED <<q_native, q_vert, q_i, q_active, q_given, q_supplied,
                   q_unloadable>>
    /\ UNCHANGED <<q_shape, q_vert_data, q_ai, q_axial>>
    /\ UNCHANGED <<splitVars, filterVars, relabelVars, aggVars>>

QcNext ==
    \/ LoadNative
    \/ LoadVert
    \/ SelectSlices
    \/ LoadMethod
    \/ CheckActive
    \/ Render

(***************************************************************************)
(* Specifications.                                                         *)
(***************************************************************************)
InitSplit   == SplitInit /\ FilterIdle /\ RelabelIdle /\ AggIdle /\ QcIdle
InitFilter  == SplitIdle /\ FilterInit /\ RelabelIdle /\ AggIdle /\ QcIdle
InitRelabel == SplitIdle /\ FilterIdle /\ RelabelInit /\ AggIdle /\ QcIdle
InitAgg     == SplitIdle /\ FilterIdle /\ RelabelIdle /\ AggInit /\ QcIdle
InitQc      == SplitIdle /\ FilterIdle /\ RelabelIdle /\ AggIdle /\ QcInit

\* The tools that write an image, each run on its own, on images of either
\* header; the voxels hold the background and one label (in halves: the cord
\* code for a splitter, 22 for the filter, 11 for the relabeler).
GeomSplitValues == [var \in Variants |-> {0, 2 * CordCode(var)}]
GeomFilterValues == {0, 44}
GeomRelabelValues == {0, 22}
InitImages ==
    \/ SplitStart(GeomSplitValues, Headers)
          /\ FilterIdle /\ RelabelIdle /\ AggIdle /\ QcIdle
    \/ SplitIdle /\ FilterStart(GeomFilterValues, Headers)
          /\ RelabelIdle /\ AggIdle /\ QcIdle
    \/ SplitIdle /\ FilterIdle /\ RelabelStart(GeomRelabelValues, Headers)
          /\ AggIdle /\ QcIdle
ImagesNext ==
    \/ SplitNext
    \/ FilterNext
    \/ RelabelNext

SpecSplit   == InitSplit /\ [][SplitNext]_vars
SpecFilter  == InitFilter /\ [][FilterNext]_vars
SpecRelabel == InitRelabel /\ [][RelabelNext]_vars
SpecAgg     == InitAgg /\ [][AggNext]_vars
SpecQc      == InitQc /\ [][QcNext]_vars
SpecImages  == InitImages /\ [][ImagesNext]_vars

(***************************************************************************)
(* Properties of the Label Splitters.                                      *)
(***************************************************************************)
\* the input as the splitter sees it: np.round(data).astype(np.int16)
RoundedInput == [v \in Vox |-> AsInt16(Round(input_file[v]))]

IsMask(f) == DOMAIN f = Vox
SliceEmpty(m, z) == \A p \in InPlane : m[<<p, z>>] = 0
CodeOccurs(code) == \E v \in Vox : RoundedInput[v] = code
BothWritten == IsMask(disk[CordName]) /\ IsMask(disk[CanalName])

\* the law itself, on the two written masks
ZRangeLaw ==
    \A z \in ZS : SliceEmpty(disk[CanalName], z) <=> SliceEmpty(disk[CordName], z)

\* C1 as claimed: for ANY input volume, a slice of the written canal mask is
\* all-zero exactly when the same slice of the written cord mask is all-zero.
C1_AnyInput == BothWritten => ZRangeLaw

\* C1 as amended: when both codes occur in the rounded input, or neither does,
\* a slice of the written canal mask is all-zero exactly when the same slice
\* of the written cord mask is all-zero.
C1_ZRangeLaw ==
    (BothWritten /\ (CodeOccurs(CordCode(variant)) <=> CodeOccurs(CanalCode(variant))))
        => ZRangeLaw

\* C1 witness: both masks written; a slice holding the cord but not the canal
\* was emptied in the cord mask, while another slice keeps both.
C1_Witness ==
    /\ BothWritten
    /\ \E z \in ZS :
          /\ \E p \in InPlane : RoundedInput[<<p, z>>] = CordCode(variant)
          /\ \A p \in InPlane : RoundedInput[<<p, z>>] # CanalCode(variant)
          /\ SliceEmpty(disk[CordName], z)
    /\ \E z \in ZS : ~SliceEmpty(disk[CordName], z) /\ ~SliceEmpty(disk[CanalName], z)

\* C2: once the three masks are written, the combined mask is the voxelwise OR
\* of the cord mask and the canal mask, whether or not the intersection ran.
C2_CombinedIsOr ==
    (BothWritten /\ IsMask(disk[CombinedName])) =>
        \A v \in Vox :
            disk[CombinedName][v] = 1 <=>
                (disk[CordName][v] = 1 \/ disk[CanalName][v] = 1)

\* C2 witness: three masks written after an intersection that emptied a slice,
\* with cord and canal voxels left.
C2_Witness ==
    /\ BothWritten /\ IsMask(disk[CombinedName])
    /\ \E v \in Vox : disk[CordName][v] = 1
    /\ \E v \in Vox : disk[CanalName][v] = 1
    /\ \E v \in Vox : RoundedInput[v] = CanalCode(variant) /\ disk[CombinedName][v] = 0

\* the outputs asked for, in the order cord, canal, combined
Requested ==
    SelectSeq(<<cord_out, canal_out, combined_out>>, LAMBDA n : n # NoName)

\* the files of Requested[1..k] are complete, the later ones were never opened
\* (the k+1-st may be absent or partly written)
PrefixWritten(k) ==
    /\ \A i \in 1 .. k : IsMask(disk[Requested[i]])
    /\ \A i \in (k + 2) .. Len(Requested) : disk[Requested[i]] = Absent
    /\ k < Len(Requested) => disk[Requested[k + 1]] \in {Absent, Partial}

\* C9: outputs are written in the order cord, canal, combined; an exception
\* ends the process with status 1, with no later output written and every
\* output written before it left as it was; without an exception the process
\* ends with status 0 and every requested output written.
C9_FailureSemantics ==
    /\ [](\E k \in 0 .. Len(Requested) : PrefixWritten(k))
    /\ [](exit_status = 1 =>
            /\ pc = "exit"
            /\ ~ENABLED SplitNext
            /\ \E k \in 0 .. Len(Requested) :
                  PrefixWritten(k) /\ (k < Len(Requested) \/ Len(Requested) = 0))
    /\ [](exit_status = 0 =>
            /\ pc = "exit"
            /\ \A n \in OutNames :
                  IF n \in {cord_out, canal_out, combined_out}
                  THEN IsMask(disk[n]) ELSE disk[n] = Absent)
    /\ [][\A n \in OutNames : IsMask(disk[n]) => disk'[n] = disk[n]]_vars
    /\ [][exit_status' = 1 /\ exit_status = Running =>
            \A n \in OutNames : disk'[n] # disk[n] => disk'[n] = Partial]_vars
    /\ [][exit_status' = 0 /\ exit_status = Running => pc = "return"]_vars

\* C9 witness: the cord mask is on disk, the write of the canal mask raised
\* and left a partial file, the combined mask was asked for and never written,
\* and the process ended with status 1.
C9_Witness ==
    /\ exit_status = 1
    /\ IsMask(disk[CordName])
    /\ disk[CanalName] = Partial
    /\ combined_out = CombinedName
    /\ disk[CombinedName] = Absent

\* slice z of the rounded input holds the code
SliceHolds(z, code) == \E p \in InPlane : RoundedInput[<<p, z>>] = code
BothOccur == CodeOccurs(CordCode(variant)) /\ CodeOccurs(CanalCode(variant))

\* slice z survives: always when the intersection is skipped, and only if it
\* holds both codes when both codes occur in the volume
SliceKept(z) ==
    BothOccur => (SliceHolds(z, CordCode(variant)) /\ SliceHolds(z, CanalCode(variant)))

\* the mask the claim describes for a code
ClaimedMask(code) ==
    [v \in Vox |-> IF RoundedInput[v] = code /\ SliceKept(v[2]) THEN 1 ELSE 0]

\* C13: every voxel of a written mask is 0 or 1; a cord (canal) mask voxel is 1
\* exactly when the rounded input holds the cord (canal) code there and, if
\* both codes occur in the volume, its slice holds both codes; with one code or
\* none in the volume no slice is zeroed; with both codes and no shared slice
\* all three masks are all-zero.
C13_PerVoxel ==
    /\ \A n \in OutNames :
          IsMask(disk[n]) => \A v \in Vox : disk[n][v] \in {0, 1}
    /\ IsMask(disk[CordName]) => disk[CordName] = ClaimedMask(CordCode(variant))
    /\ IsMask(disk[CanalName]) => disk[CanalName] = ClaimedMask(CanalCode(variant))
    /\ \A n \in OutNames :
          (IsMask(disk[n]) /\ BothOccur /\ \A z \in ZS : ~SliceKept(z)) =>
              \A v \in Vox : disk[n][v] = 0

\* C13 witness: both codes occur but share no slice, and the three masks were
\* written all-zero.
C13_Witness ==
    /\ \A n \in OutNames : IsMask(disk[n]) /\ \A v \in Vox : disk[n][v] = 0
    /\ BothOccur
    /\ \A z \in ZS : ~SliceKept(z)

(***************************************************************************)
(* Properties of the Vertebral Relabeler.                                  *)
(***************************************************************************)
\* the mapping table as the specification words it (ranges, not entries)
IsKey(o) == o \in (11 .. 17) \cup (21 .. 32) \cup (41 .. 45) \cup {50}
Mapped(o) ==
    IF o \in 11 .. 17 THEN o - 10
    ELSE IF o \in 21 .. 32 THEN o - 13
    ELSE IF o \in 41 .. 45 THEN o - 21
    ELSE 25

\* C3: every voxel whose original integer value is a key of the table holds
\* the mapped value in the output, every other voxel holds 0; a new code that
\* is itself an old code (11 from 24) is not mapped again.
C3_RelabelTotality ==
    r_pc = "saved" =>
        \A v \in Vox :
            LET o == Trunc(r_input[v])
            IN  r_out[v] = IF IsKey(o) THEN Mapped(o) ELSE 0

\* C3 witness: a saved volume with a 24 mapped to 11 beside an 11 mapped to 1
\* and a non-key 8 dropped to 0.
C3_Witness ==
    /\ r_pc = "saved"
    /\ \E v \in Vox : r_input[v] = 48 /\ r_out[v] = 11
    /\ \E v \in Vox : Trunc(r_input[v]) = 11 /\ r_out[v] = 1
    /\ \E v \in Vox : r_input[v] = 16 /\ r_out[v] = 0

(***************************************************************************)
(* Properties of the Label Range Filter.                                   *)
(***************************************************************************)
\* C4: the filter applied to its own output, with the same max_label, writes
\* a volume identical to that output.
C4_FilterIdempotent ==
    \A i \in 2 .. Len(f_out) : f_out[i] = f_out[i - 1]

\* C4 witness: two runs done, the first of which removed a label.
C4_Witness ==
    /\ Len(f_out) >= 2
    /\ \E v \in Vox : Round(f_input[v]) # 0 /\ f_out[1][v] = 0
    /\ \E v \in Vox : f_out[2][v] # 0

\* C5: each output voxel holds the rounded input value if that is 0, 60 or in
\* 1..max_label, and 0 otherwise; with no out-of-range label the output is the
\* rounded input.
C5_FilterResult ==
    Len(f_out) >= 1 =>
        \A v \in Vox :
            LET r == Round(f_input[v])
            IN  f_out[1][v] =
                    IF r = 0 \/ r = 60 \/ (1 <= r /\ r <= f_max_label) THEN r ELSE 0

\* C5 witness: a run with max_label 21 that zeroed a -1 and a 22 and kept a 21
\* and a 60.
C5_Witness ==
    /\ Len(f_out) >= 1
    /\ f_max_label = 21
    /\ \E v \in Vox : Round(f_input[v]) = -1 /\ f_out[1][v] = 0
    /\ \E v \in Vox : Round(f_input[v]) = 22 /\ f_out[1][v] = 0
    /\ \E v \in Vox : f_out[1][v] = 21
    /\ \E v \in Vox : f_out[1][v] = 60

(***************************************************************************)
(* Properties of the CSV Aggregator.                                       *)
(***************************************************************************)
\* the level columns of the returned table, as the set of their levels
LevelColumns(df) ==
    {ColumnInt(df.columns[k]) :
        k \in {j \in DOMAIN df.columns : df.columns[j][1] = "level"}}

C7_RowFiltering ==
    /\ a_pc # "crashed"
    /\ \A k \in DOMAIN a_read : DictKeys(a_rows[k].levels) = a_read[k].levels

\* the files of the listing the loop has passed that match the measure type
PassedMatching ==
    {a_files[k] : k \in {j \in 1 .. (a_i - 1) : j <= Len(a_files)
                                               /\ EndsWith(a_files[j], MeasureOf(a_pair))}}
SkippedFiles == {w[2] : w \in {x \in a_warned : Len(x) = 2}}

\* C8 as claimed: an unreadable file or one without the value column is
\* skipped with a warning and gives no row, every other matching file gives
\* its row (the run goes on), a missing directory gives a warning and an empty
\* result, and main writes no file for a pair without rows and goes on to the
\* remaining pairs.
C8_Resilience ==
    /\ [](a_pc # "crashed")
    /\ [](a_pc \in {"loop", "returned"} /\ <<"Directory not found">> \notin a_warned =>
            /\ {a_read[k].fname : k \in DOMAIN a_read} = PassedMatching \ SkippedFiles
            /\ Len(a_rows) = Len(a_read))
    /\ [](a_pc = "returned" /\ <<"Directory not found">> \in a_warned =>
            a_df = EmptyFrame)
    /\ [][a_pc = "returned" /\ a_df.rows = <<>> =>
            /\ a_written' = a_written
            /\ a_pc' = IF a_pair < Len(a_method_dirs) * Len(Measures)
                       THEN "call" ELSE "done"]_vars
    /\ [](a_pc = "done" => a_pair = Len(a_method_dirs) * Len(Measures))

\* C12: a non-empty table returned by parse_method_directory has the columns
\* subject_id, session_id and then the level columns, each named "level" and
\* the decimal number of a level supplied by an accepted file, in strictly
\* ascending order of that number, whatever the order the levels were met in.
C12_ColumnOrder ==
    (a_pc = "returned" /\ ~IsEmptyFrame(a_df)) =>
        LET cols == a_df.columns
        IN  /\ Len(cols) >= 2
            /\ cols[1] = <<"subject_id">>
            /\ cols[2] = <<"session_id">>
            /\ \A k \in 3 .. Len(cols) :
                  /\ cols[k][1] = "level"
                  /\ \E n \in UNION {a_read[f].levels : f \in DOMAIN a_read} :
                        cols[k] = LevelColumn(n) /\ ColumnInt(cols[k]) = n
            /\ \A j, k \in 3 .. Len(cols) :
                  j < k => ColumnInt(cols[j]) < ColumnInt(cols[k])

\* C12 witness: the first accepted file supplies level 10 and the second
\* level 2; the table has level2 before level10.
C12_Witness ==
    /\ a_pc = "returned"
    /\ Len(a_read) = 2
    /\ a_read[1].levels = {10}
    /\ a_read[2].levels = {2}
    /\ a_df.columns = << <<"subject_id">>, <<"session_id">>,
                         <<"level", "2">>, <<"level", "1", "0">> >>

\* the last row of the k-th accepted file that supplies level n
LastRowWith(k, n) ==
    CHOOSE r \in DOMAIN a_read[k].by_row :
        /\ a_read[k].by_row[r] = n
        /\ \A q \in DOMAIN a_read[k].by_row : a_read[k].by_row[q] = n => q <= r

\* C15: the rows of parse_method_directory are, one for one and in sorted
\* filename order, the files that matched the measure type, could be read and
\* have the value column; each row carries the subject and session of its own
\* file (two files with the same pair give two rows), and for each level of
\* its file the value of the last row of the file with that level.  The
\* returned table has the same rows.
C15_OneRowPerFile ==
    (a_pc \in {"loop", "returned"} /\ <<"Directory not found">> \notin a_warned) =>
        /\ Len(a_rows) = Len(a_read)
        /\ {a_read[k].fname : k \in DOMAIN a_read} = PassedMatching \ SkippedFiles
        /\ \A j, k \in DOMAIN a_read : j < k => a_read[j].fname < a_read[k].fname
        /\ \A k \in DOMAIN a_rows :
              /\ a_rows[k].subject_id = extract_bids_fields(a_read[k].fname).subject_id
              /\ a_rows[k].session_id = extract_bids_fields(a_read[k].fname).session_id
              /\ DictKeys(a_rows[k].levels) = a_read[k].levels
        /\ (a_pc = "returned" /\ a_rows # <<>>) =>
              /\ Len(a_df.rows) = Len(a_rows)
              /\ \A k \in DOMAIN a_df.rows :
                    /\ a_df.rows[k].subject_id = a_rows[k].subject_id
                    /\ a_df.rows[k].session_id = a_rows[k].session_id
                    /\ \A n \in a_read[k].levels :
                          a_df.rows[k].level[n] = InfoValue(a_read[k], LastRowWith(k, n))

\* C15 witness: a_cord.csv and b_cord.csv, neither with a sub- or ses- token,
\* gave two rows with the same empty pair; both data rows of the first file
\* have level 2 and the table holds the value of the second.
C15_Witness ==
    /\ a_pc = "returned"
    /\ Len(a_df.rows) = 2
    /\ FileNames[a_read[1].fname] = <<"a", "_cord.csv">>
    /\ FileNames[a_read[2].fname] = <<"b", "_cord.csv">>
    /\ \A k \in 1 .. 2 : a_df.rows[k].subject_id = "" /\ a_df.rows[k].session_id = ""
    /\ a_read[1].by_row = <<2, 2>>
    /\ a_df.rows[1].level[2] = InfoValue(a_read[1], 2)

(***************************************************************************)
(* Properties of the QC Figure Generator.                                  *)
(***************************************************************************)
QcEnded == q_pc \in {"returned", "raised"}
NoMaskLoadable == q_supplied = {} /\ ~q_unloadable
GracefulSkip ==
    /\ q_pc # "raised"
    /\ q_out = "absent"
    /\ ~q_dir
    /\ q_pc = "returned" =>
          "WARNING: No segmentation data found for QC overlay." \in q_log

\* C10 as claimed: with a loadable reference image and no method supplying a
\* loadable mask (every given path None or no existing file), the call writes
\* no output file, makes no directory, prints the warning and returns without
\* an exception.
C10_AsClaimed ==
    (q_native = "file" /\ NoMaskLoadable /\ QcEnded) => GracefulSkip

\* C10 as amended: the same, provided the vertebral-level file is not given,
\* is no existing file, or is loadable.
C10_GracefulSkip ==
    (q_native = "file" /\ q_vert # "corrupt" /\ NoMaskLoadable /\ QcEnded)
        => GracefulSkip

\* C10 witness: the call returned with the warning after going through all four
\* methods, some of them in method_files but with no loadable mask.
C10_Witness ==
    /\ q_native = "file"
    /\ q_given # {}
    /\ q_pc = "returned"
    /\ q_i > Len(MethodNames)
    /\ NoMaskLoadable
    /\ "WARNING: No segmentation data found for QC overlay." \in q_log
    /\ q_out = "absent"

\* the slice selection is done
QcSelected == q_axial # <<>>
VertLoaded == load_nifti(q_vert) = "data"

\* the levels among 1..4 found in the vertebral volume, and the k-th of them
FoundLevels ==
    IF VertLoaded
    THEN {l \in 1 .. 4 : \E v \in DOMAIN q_vert_data.vox : q_vert_data.vox[v] = l}
    ELSE {}
NthLevel(k) ==
    CHOOSE l \in FoundLevels : Cardinality({m \in FoundLevels : m < l}) = k - 1

\* the axial slices holding level l, and the middle one of a set of slices
LevelZ(l) == {v[2] : v \in {w \in DOMAIN q_vert_data.vox : q_vert_data.vox[w] = l}}
Median(S) == CHOOSE m \in S : Cardinality({z \in S : z < m}) = Cardinality(S) \div 2

\* the centroid slice: the mean axial position of the positive voxels of the
\* vertebral volume (the middle of the reference volume without any), kept
\* inside the reference volume
CentroidZ ==
    LET pos == IF VertLoaded
               THEN {v \in DOMAIN q_vert_data.vox : q_vert_data.vox[v] > 0}
               ELSE {}
        mean == IF pos = {} THEN q_shape \div 2
                ELSE SumZ(pos) \div Cardinality(pos)
    IN  Min(mean, q_shape - 1)
Clamp(z) == Max(0, Min(q_shape - 1, z))
ColumnZ(k) == q_axial[k][3]

\* four columns, inside the reference volume; without a found level the four
\* slices around the centroid; with found levels, pads of the centroid slice
\* after them
FourColumns ==
    LET ai == CentroidZ
        s == q_shape \div 8
        found == FoundLevels
    IN  /\ Len(q_axial) = 4
        /\ \A k \in 1 .. 4 : ColumnZ(k) \in 0 .. (q_shape - 1)
        /\ q_ai = ai
        /\ found = {} =>
              <<ColumnZ(1), ColumnZ(2), ColumnZ(3), ColumnZ(4)>> =
                  <<Clamp(ai - 3 * s), Clamp(ai - s), Clamp(ai + s), Clamp(ai + 3 * s)>>
        /\ found # {} =>
              \A k \in (Cardinality(found) + 1) .. 4 : ColumnZ(k) = ai

\* C14 as claimed: four axial columns inside the reference volume; the column
\* of the k-th found level among 1..4 is at the middle one of the slices
\* holding the level; fallback and padding as in FourColumns.
C14_AsClaimed ==
    QcSelected =>
        /\ FourColumns
        /\ \A k \in 1 .. Cardinality(FoundLevels) :
              ColumnZ(k) = Median(LevelZ(NthLevel(k)))

\* C14 as amended: the same, the column of a found level being at the middle
\* one of the slices holding the level or, if that lies beyond the reference
\* volume (a vertebral volume with more slices), at the last slice Z-1.
C14_SliceSelection ==
    QcSelected =>
        /\ FourColumns
        /\ \A k \in 1 .. Cardinality(FoundLevels) :
              ColumnZ(k) = Min(Median(LevelZ(NthLevel(k))), q_shape - 1)

\* C14 witness: a reference volume of 4 slices and a vertebral volume of 8
\* with levels 1 and 2 in slices 5 and 6: two level columns, lowered from 6 to
\* 3, and two pads at the centroid slice.
C14_Witness ==
    /\ QcSelected
    /\ q_shape = 4
    /\ FoundLevels = {1, 2}
    /\ Median(LevelZ(1)) = 6
    /\ q_axial = << <<"Axial C", 1, 3>>, <<"Axial C", 2, 3>>,
                    <<"Axial", 0, 3>>, <<"Axial", 0, 3>> >>

(***************************************************************************)
(* Properties of the written images' geometry.                             *)
(***************************************************************************)
SameGeometry(out, in) == out.affine = in.affine /\ out.zooms = in.zooms

\* C11: every image a tool writes has the affine and the voxel spacing of the
\* tool's input; a Label Splitter's output header is the input's header with
\* the data type set to int16 and nothing else changed, the Label Range
\* Filter's and the Vertebral Relabeler's output header is the input's header.
C11_GeometryPreserved ==
    /\ \A n \in OutNames :
          IsMask(disk[n]) =>
              /\ SameGeometry(disk_header[n], img_header)
              /\ disk_header[n] = [img_header EXCEPT !.dtype = "int16"]
    /\ \A i \in DOMAIN f_out :
          /\ SameGeometry(f_out_header[i], f_header)
          /\ f_out_header[i] = f_header
    /\ r_pc = "saved" =>
          /\ SameGeometry(r_out_header, r_header)
          /\ r_out_header = r_header

\* C11 witness: a splitter read a float64 image with 5 mm slices and wrote the
\* three masks, each as int16 with the input's affine and spacing.
C11_Witness ==
    /\ \A n \in OutNames : IsMask(disk[n])
    /\ img_header.dtype = "float64"
    /\ \A n \in OutNames :
          /\ disk_header[n].dtype = "int16"
          /\ disk_header[n].zooms = <<1, 1, 5>>
          /\ disk_header[n].affine = img_header.affine

====
